---- MODULE Spec2Model ----
(***************************************************************************)
(* Model of processed_data/502_investment/script/final.py: the finalizer   *)
(* (finalize_dataframe), the custom CSV writer                             *)
(* (write_csv_only_county_fips_quoted), the per-file driver                *)
(* (process_csv_file) and the batch loop (main).                           *)
(*                                                                         *)
(* Text is a sequence of one-character strings, so that digit extraction,  *)
(* character removal, number parsing and integer formatting are computed   *)
(* character by character.  A missing value (pandas NaN) is the one-element*)
(* sequence NaN, whose element is not a single character and so is never   *)
(* equal to a text.                                                        *)
(***************************************************************************)
EXTENDS Integers, Sequences, FiniteSets, TLC

VARIABLES
  files,                    \* appalachian_data/: file name -> content
  out,                      \* final_data/: file name -> bytes, or NoFile
  todo,                     \* the files the loop of main has yet to visit
  pc,                       \* where main stands
  run,                      \* 1 for the first invocation of main, 2 for the second
  successful_files, failed_files, total_finalized_records,
  log,                      \* per file: the calls of process_csv_file in this run
  snap,                     \* final_data/ and the summary as the first run left them
  arg, res                  \* argument and result of a single call

vars == <<files, out, todo, pc, run,
          successful_files, failed_files, total_finalized_records,
          log, snap, arg, res>>

(***************************************************************************)
(* Bounds                                                                  *)
(***************************************************************************)
\* longest cell text enumerated for the coercion functions
MaxLen == 3
\* most data rows in an input file
MaxRows == 2

\* characters the enumerated cell texts are built from (exponent notation
\* and white space are not enumerated)
Alphabet == {"0", "1", "7", ".", ",", "$", "-", "i", "n", "f", "a"}

RECURSIVE Texts(_, _)
Texts(A, n) ==
  IF n = 0 THEN {<<>>}
  ELSE LET shorter == Texts(A, n - 1)
       IN  shorter \cup {Append(s, c) : s \in {t \in shorter : Len(t) = n - 1}, c \in A}

Range(s) == {s[i] : i \in DOMAIN s}

(***************************************************************************)
(* Cell values                                                             *)
(***************************************************************************)
NaN == <<"<NaN>">>

Digits == {"0", "1", "2", "3", "4", "5", "6", "7", "8", "9"}

DigitVal(c) ==
  CASE c = "0" -> 0 [] c = "1" -> 1 [] c = "2" -> 2 [] c = "3" -> 3
    [] c = "4" -> 4 [] c = "5" -> 5 [] c = "6" -> 6 [] c = "7" -> 7
    [] c = "8" -> 8 [] c = "9" -> 9

\* pd.read_csv(..., dtype=str): the cell texts read as a missing value
NaValues ==
  { <<>>,
    <<"#", "N", "/", "A">>, <<"#", "N", "/", "A", " ", "N", "/", "A">>,
    <<"#", "N", "A">>,
    <<"-", "1", ".", "#", "I", "N", "D">>, <<"-", "1", ".", "#", "Q", "N", "A", "N">>,
    <<"-", "N", "a", "N">>, <<"-", "n", "a", "n">>,
    <<"1", ".", "#", "I", "N", "D">>, <<"1", ".", "#", "Q", "N", "A", "N">>,
    <<"<", "N", "A", ">">>, <<"N", "/", "A">>, <<"N", "A">>,
    <<"N", "U", "L", "L">>, <<"N", "a", "N">>, <<"N", "o", "n", "e">>,
    <<"n", "/", "a">>, <<"n", "a", "n">>, <<"n", "u", "l", "l">> }

\* one cell as pd.read_csv(dtype=str) delivers it
read_cell(raw) == IF raw \in NaValues THEN NaN ELSE raw

\* Series.astype(str) on one cell: a missing value becomes the text nan
astype_str(cell) == IF cell = NaN THEN <<"n", "a", "n">> ELSE cell

(***************************************************************************)
(* county_fips coercion                                                    *)
(***************************************************************************)
RECURSIVE DropToDigit(_)
DropToDigit(s) ==
  IF s = <<>> THEN <<>>
  ELSE IF Head(s) \in Digits THEN s ELSE DropToDigit(Tail(s))

RECURSIVE TakeDigits(_)
TakeDigits(s) ==
  IF s = <<>> THEN <<>>
  ELSE IF Head(s) \in Digits THEN <<Head(s)>> \o TakeDigits(Tail(s)) ELSE <<>>

\* .str.extract(r'(\d+)')[0] on one text: the first match, NaN without one
str_extract_digits(s) ==
  LET m == TakeDigits(DropToDigit(s)) IN IF m = <<>> THEN NaN ELSE m

\* .fillna('') on one cell
fillna_empty(cell) == IF cell = NaN THEN <<>> ELSE cell

\* the disabled variant of the coercion: .str.zfill(5)
RECURSIVE zfill(_, _)
zfill(s, w) == IF Len(s) >= w THEN s ELSE zfill(<<"0">> \o s, w)

coerce_county_fips_zfill(cell) ==
  zfill(fillna_empty(str_extract_digits(astype_str(cell))), 5)

coerce_county_fips(cell) ==
  fillna_empty(str_extract_digits(astype_str(cell)))

(***************************************************************************)
(* Numeric coercion                                                        *)
(***************************************************************************)
\* .str.replace(ch, '', regex=False) on one text
str_replace(s, ch) == SelectSeq(s, LAMBDA c : c # ch)

RECURSIVE DigitsValue(_)
DigitsValue(ds) ==
  IF ds = <<>> THEN 0
  ELSE 10 * DigitsValue(SubSeq(ds, 1, Len(ds) - 1)) + DigitVal(ds[Len(ds)])

Unsigned(s) == IF s # <<>> /\ Head(s) \in {"+", "-"} THEN Tail(s) ELSE s

IsNegative(s) == s # <<>> /\ Head(s) = "-"

\* the spellings of infinity the number parser accepts
InfWords ==
  { <<"i", "n", "f">>, <<"I", "n", "f">>, <<"I", "N", "F">>,
    <<"i", "n", "f", "i", "n", "i", "t", "y">>,
    <<"I", "n", "f", "i", "n", "i", "t", "y">> }

\* digits [. digits] or . digits
IsDecimal(b) ==
  LET ip == TakeDigits(b)
      r  == SubSeq(b, Len(ip) + 1, Len(b))
  IN  \/ ip # <<>> /\ r = <<>>
      \/ /\ r # <<>>
         /\ Head(r) = "."
         /\ Range(Tail(r)) \subseteq Digits
         /\ (ip # <<>> \/ Tail(r) # <<>>)

\* pd.to_numeric(..., errors='coerce') on one cell.  A number is kept as its
\* sign and the value of its integer part, which is all the later cast to
\* int64 reads of it.
to_numeric(cell) ==
  IF cell = NaN THEN [kind |-> "nan", neg |-> FALSE, ipart |-> 0]
  ELSE LET b == Unsigned(cell) IN
       IF b \in InfWords
         THEN [kind |-> "inf", neg |-> IsNegative(cell), ipart |-> 0]
       ELSE IF IsDecimal(b)
         THEN [kind |-> "num", neg |-> IsNegative(cell),
               ipart |-> DigitsValue(TakeDigits(b))]
       ELSE [kind |-> "nan", neg |-> FALSE, ipart |-> 0]

\* .fillna(0) on one parsed value
fillna_zero(v) ==
  IF v.kind = "nan" THEN [kind |-> "num", neg |-> FALSE, ipart |-> 0] ELSE v

\* the text handed to pd.to_numeric for 502_investment_dollars
strip_dollars(cell) == str_replace(str_replace(astype_str(cell), ","), "$")

\* .astype('int64') on a whole column of parsed values: raises when any value
\* is not finite, otherwise truncates every value toward zero
astype_int64(col) ==
  IF \E i \in DOMAIN col : col[i].kind # "num"
    THEN [exc |-> TRUE, values |-> <<>>]
    ELSE [exc |-> FALSE,
          values |-> [i \in DOMAIN col |->
                        IF col[i].neg THEN 0 - col[i].ipart ELSE col[i].ipart]]

\* lines 66-73 on one column of cells
coerce_dollars(col) ==
  astype_int64([i \in DOMAIN col |-> fillna_zero(to_numeric(strip_dollars(col[i])))])

\* lines 76-78 on one column of cells
coerce_count(col) ==
  astype_int64([i \in DOMAIN col |-> fillna_zero(to_numeric(col[i]))])

(***************************************************************************)
(* Integer formatting (the {int(x)} fields of the writer's f-string)       *)
(***************************************************************************)
DigitChar(d) ==
  CASE d = 0 -> "0" [] d = 1 -> "1" [] d = 2 -> "2" [] d = 3 -> "3"
    [] d = 4 -> "4" [] d = 5 -> "5" [] d = 6 -> "6" [] d = 7 -> "7"
    [] d = 8 -> "8" [] d = 9 -> "9"

RECURSIVE NatText(_)
NatText(n) ==
  IF n < 10 THEN <<DigitChar(n)>>
  ELSE NatText(n \div 10) \o <<DigitChar(n % 10)>>

int_str(n) == IF n < 0 THEN <<"-">> \o NatText(0 - n) ELSE NatText(n)

(***************************************************************************)
(* Data frames: a sequence of column labels (duplicates possible) and a    *)
(* sequence of rows, each row a sequence of cells aligned with the labels. *)
(***************************************************************************)
\* pd.DataFrame()
EmptyFrame == [columns |-> <<>>, rows |-> <<>>]

\* an emptiness test that looks at the columns only
IsEmptyFrame_columns_only(df) == Len(df.columns) = 0

\* DataFrame.empty
IsEmptyFrame(df) == Len(df.columns) = 0 \/ Len(df.rows) = 0

column_mapping(c) ==
  CASE c = "fiscal_year" -> "year"
    [] c = "investment_dollars" -> "502_investment_dollars"
    [] c = "number_of_investments" -> "number_of_502_investment"
    [] OTHER -> c

\* final_df.rename(columns=column_mapping)
rename(df) ==
  [df EXCEPT !.columns = [i \in DOMAIN df.columns |-> column_mapping(df.columns[i])]]

required_columns ==
  <<"year", "county", "state_name", "county_fips",
    "502_investment_dollars", "number_of_502_investment">>

\* a presence check that leaves county_fips out of the list
missing_columns_without_fips(df) ==
  SelectSeq(required_columns, LAMBDA c : c # "county_fips" /\ c \notin Range(df.columns))

missing_columns(df) ==
  SelectSeq(required_columns, LAMBDA c : c \notin Range(df.columns))

\* the positions of label c at or after position i, ascending
RECURSIVE PositionsOf(_, _, _)
PositionsOf(cols, c, i) ==
  IF i > Len(cols) THEN <<>>
  ELSE (IF cols[i] = c THEN <<i>> ELSE <<>>) \o PositionsOf(cols, c, i + 1)

RECURSIVE SelectPositions(_, _)
SelectPositions(cols, want) ==
  IF want = <<>> THEN <<>>
  ELSE PositionsOf(cols, Head(want), 1) \o SelectPositions(cols, Tail(want))

\* df[want] for a list of labels: every column carrying a wanted label, in
\* the order of the list
getitem_list(df, want) ==
  LET p == SelectPositions(df.columns, want) IN
  [columns |-> [i \in DOMAIN p |-> df.columns[p[i]]],
   rows    |-> [r \in DOMAIN df.rows |-> [i \in DOMAIN p |-> df.rows[r][p[i]]]]]

\* the cells of the column at position k
ColumnAt(df, k) == [r \in DOMAIN df.rows |-> df.rows[r][k]]

\* df[label] = values, for a label carried by the single position k
SetColumnAt(df, k, values) ==
  [df EXCEPT !.rows = [r \in DOMAIN df.rows |-> [df.rows[r] EXCEPT ![k] = values[r]]]]

\* what a call leaves behind when it raises
Raised == [exc |-> TRUE, coerced |-> FALSE, df |-> EmptyFrame]

\* lines 58-78.  df[label] is a column when one position carries the label;
\* when none does the lookup raises, and when two do it is a frame, which has
\* no .str accessor and which pd.to_numeric rejects, so the call raises too.
coerce_columns(df) ==
  LET fp == PositionsOf(df.columns, "county_fips", 1)
      dp == PositionsOf(df.columns, "502_investment_dollars", 1)
      np == PositionsOf(df.columns, "number_of_502_investment", 1)
  IN  IF Len(fp) # 1 THEN Raised
      ELSE LET f == [r \in DOMAIN df.rows |-> coerce_county_fips(df.rows[r][fp[1]])] IN
           IF Len(dp) # 1 THEN Raised
           ELSE LET d == coerce_dollars(ColumnAt(df, dp[1])) IN
                IF d.exc THEN Raised
                ELSE IF Len(np) # 1 THEN Raised
                ELSE LET n == coerce_count(ColumnAt(df, np[1])) IN
                     IF n.exc THEN Raised
                     ELSE [exc |-> FALSE, coerced |-> TRUE,
                           df |-> SetColumnAt(SetColumnAt(SetColumnAt(df, fp[1], f),
                                                          dp[1], d.values),
                                              np[1], n.values)]

finalize_dataframe(df) ==
  LET final_df == rename(df) IN
  IF missing_columns(final_df) # <<>>
    THEN [exc |-> FALSE, coerced |-> FALSE, df |-> EmptyFrame]
    ELSE coerce_columns(getitem_list(final_df, required_columns))

(***************************************************************************)
(* The writer                                                              *)
(***************************************************************************)
ColumnText(c) ==
  CASE c = "year" -> <<"y", "e", "a", "r">>
    [] c = "county" -> <<"c", "o", "u", "n", "t", "y">>
    [] c = "state_name" -> <<"s", "t", "a", "t", "e", "_", "n", "a", "m", "e">>
    [] c = "county_fips" ->
         <<"c", "o", "u", "n", "t", "y", "_", "f", "i", "p", "s">>
    [] c = "502_investment_dollars" ->
         <<"5", "0", "2", "_", "i", "n", "v", "e", "s", "t", "m", "e", "n", "t",
           "_", "d", "o", "l", "l", "a", "r", "s">>
    [] c = "number_of_502_investment" ->
         <<"n", "u", "m", "b", "e", "r", "_", "o", "f", "_", "5", "0", "2", "_",
           "i", "n", "v", "e", "s", "t", "m", "e", "n", "t">>

\* ','.join(cols) + '\n'
RECURSIVE JoinColumns(_)
JoinColumns(cols) ==
  IF Len(cols) = 1 THEN ColumnText(cols[1])
  ELSE ColumnText(Head(cols)) \o <<",">> \o JoinColumns(Tail(cols))

header_line == JoinColumns(required_columns) \o <<"\n">>

\* '' if pd.isna(x) else str(x)
safe_str(x) == IF x = NaN THEN <<>> ELSE x

\* the f-string of line 103 without the pd.isna guards of lines 98-100
row_line_unguarded(row) ==
  astype_str(row[1]) \o <<",">> \o astype_str(row[2]) \o <<",">> \o astype_str(row[3])
    \o <<",", "\"">> \o astype_str(row[4]) \o <<"\"", ",">>
    \o int_str(row[5]) \o <<",">> \o int_str(row[6]) \o <<"\n">>

\* the f-string of line 103; year is formatted as it is
row_line(row) ==
  astype_str(row[1]) \o <<",">> \o safe_str(row[2]) \o <<",">> \o safe_str(row[3])
    \o <<",", "\"">> \o safe_str(row[4]) \o <<"\"", ",">>
    \o int_str(row[5]) \o <<",">> \o int_str(row[6]) \o <<"\n">>

\* the loop of lines 95-104 from row i on: unpacking a row that does not have
\* six values raises and leaves what was written before it
RECURSIVE write_rows(_, _, _)
write_rows(rows, i, written) ==
  IF i > Len(rows) THEN [exc |-> FALSE, bytes |-> written]
  ELSE IF Len(rows[i]) # 6 THEN [exc |-> TRUE, bytes |-> written]
  ELSE write_rows(rows, i + 1, written \o row_line(rows[i]))

\* the bytes of the output file once the with block is left
write_csv_only_county_fips_quoted(df) ==
  write_rows(getitem_list(df, required_columns).rows, 1, header_line)

(***************************************************************************)
(* process_csv_file                                                        *)
(***************************************************************************)
NoFile == <<"<no file>">>

\* open(output_path, 'a'): what an append-mode writer would leave
open_a(before, bytes) == IF before = NoFile THEN bytes ELSE before \o bytes

\* open(output_path, 'w') ... close: the file holds what this call wrote
open_w(before, bytes) == bytes

\* pd.read_csv(input_path, encoding='utf-8', dtype=str) on a readable file
read_csv(content) ==
  [columns |-> content.columns,
   rows    |-> [r \in DOMAIN content.rows |->
                  [i \in DOMAIN content.rows[r] |-> read_cell(content.rows[r][i])]]]

\* the result (success, record_count), the output file after the call, and
\* what the call did on the way
process_csv_file(content, before) ==
  LET failure(fin, wrote, after) ==
        [success |-> FALSE, record_count |-> 0, after |-> after,
         fin |-> fin, wrote |-> wrote]
  IN
  IF content.kind # "table" THEN failure(Raised, FALSE, before)
  ELSE LET fin == finalize_dataframe(read_csv(content)) IN
       IF fin.exc THEN failure(fin, FALSE, before)
       ELSE IF IsEmptyFrame(fin.df) THEN failure(fin, FALSE, before)
       ELSE LET w == write_csv_only_county_fips_quoted(fin.df) IN
            IF w.exc THEN failure(fin, TRUE, open_w(before, w.bytes))
            ELSE [success |-> TRUE, record_count |-> Len(fin.df.rows),
                  after |-> open_w(before, w.bytes), fin |-> fin, wrote |-> TRUE]

(***************************************************************************)
(* Input files                                                             *)
(***************************************************************************)
\* the columns the filter stage writes (filter.py)
StandardColumns ==
  <<"fiscal_year", "state_name", "county", "zip_code", "county_fips",
    "funding_code", "program_area", "investment_dollars", "number_of_investments">>

NoFipsColumns == SelectSeq(StandardColumns, LAMBDA c : c # "county_fips")

BothYearColumns == StandardColumns \o <<"year">>

BothDollarsColumns == StandardColumns \o <<"502_investment_dollars">>

\* the final names already, in another order
FinalColumns ==
  <<"number_of_502_investment", "502_investment_dollars", "county_fips",
    "state_name", "county", "year">>

T2020 == <<"2", "0", "2", "0">>
TFulton == <<"F", "u", "l", "t", "o", "n">>
TGeorgia == <<"G", "e", "o", "r", "g", "i", "a">>
TTwoLines == <<"a", "\n", "b">>
T13121 == <<"1", "3", "1", "2", "1">>
T01007 == <<"0", "1", "0", "0", "7">>
T1007p0 == <<"1", "0", "0", "7", ".", "0">>
Tabc == <<"a", "b", "c">>
T303030 == <<"$", "3", "0", "3", ",", "0", "3", "0">>
TNA == <<"N", "/", "A">>
T12 == <<"1", "2">>
Tminus12 == <<"-", "1", "2">>
Ttwelve == <<"t", "w", "e", "l", "v", "e">>
Tinf == <<"i", "n", "f">>
T502 == <<"5", "0", "2">>

\* a row as the six texts it holds for year, county, state_name,
\* county_fips, dollars and count, laid out under the labels cols
RowUnder(cols, six) ==
  [i \in DOMAIN cols |->
     CASE cols[i] \in {"fiscal_year", "year"} -> six[1]
       [] cols[i] = "county" -> six[2]
       [] cols[i] = "state_name" -> six[3]
       [] cols[i] = "county_fips" -> six[4]
       [] cols[i] \in {"investment_dollars", "502_investment_dollars"} -> six[5]
       [] cols[i] \in {"number_of_investments", "number_of_502_investment"} -> six[6]
       [] OTHER -> T502]

\* all sequences of at most n elements of S
RECURSIVE SeqsUpTo(_, _)
SeqsUpTo(S, n) ==
  IF n = 0 THEN {<<>>}
  ELSE LET shorter == SeqsUpTo(S, n - 1)
       IN  shorter \cup {Append(s, x) : s \in {t \in shorter : Len(t) = n - 1}, x \in S}

Tables(layouts, sixes) ==
  {[kind |-> "table", columns |-> cols,
    rows |-> [r \in DOMAIN rs |-> RowUnder(cols, rs[r])]] :
     cols \in layouts, rs \in SeqsUpTo(sixes, MaxRows)}

Absent == [kind |-> "absent", columns |-> <<>>, rows |-> <<>>]

\* a file pd.read_csv raises on (not UTF-8, no header line)
Unreadable == [kind |-> "unreadable", columns |-> <<>>, rows |-> <<>>]

\* the rows of the batch runs: a clean row, a row whose fields all fall back,
\* and a row whose dollars read inf
BatchRows ==
  { <<T2020, TFulton, TGeorgia, T13121, T303030, T12>>,
    <<T2020, <<>>, TGeorgia, Tabc, TNA, Ttwelve>>,
    <<T2020, TFulton, TGeorgia, T1007p0, Tinf, T12>> }

BatchFiles ==
  Tables({StandardColumns, NoFipsColumns, BothYearColumns}, BatchRows)
    \cup {Unreadable}

\* the rows of the single-file runs: every mix of present, missing and
\* two-line county, present and missing state_name, digit and digit-free
\* county_fips, and rows with a missing year and an unparsable count
FileRows ==
  {<<T2020, county, state, fips, T303030, Tminus12>> :
     county \in {TFulton, <<>>, TTwoLines}, state \in {TGeorgia, <<>>},
     fips \in {T01007, Tabc}}
    \cup { <<<<>>, TFulton, TGeorgia, T1007p0, TNA, T12>>,
           <<T2020, TFulton, TGeorgia, T13121, T12, Ttwelve>> }

SingleFiles ==
  Tables({StandardColumns, NoFipsColumns, BothYearColumns, BothDollarsColumns,
          FinalColumns}, FileRows)

FileNames == {"a.csv", "b.csv"}

(***************************************************************************)
(* main, run twice over the same input directory                           *)
(***************************************************************************)
NoCall == [calls |-> 0, before |-> NoFile, content |-> Absent,
           r |-> [success |-> FALSE, record_count |-> 0, after |-> NoFile,
                  fin |-> Raised, wrote |-> FALSE]]

NoSnap == [out |-> [f \in FileNames |-> NoFile],
           successful_files |-> 0, failed_files |-> 0,
           total_finalized_records |-> 0]

\* list(appalachian_data_dir.glob("*.csv"))
csv_files == {f \in FileNames : files[f].kind # "absent"}

\* a loop that gives up at the first failed file
rest_after_break(remaining, f, success) ==
  IF success THEN remaining \ {f} ELSE {}

\* the files the for loop still visits after f
rest_after(remaining, f, success) == remaining \ {f}

Init ==
  /\ files \in [FileNames -> BatchFiles \cup {Absent}]
  /\ out = [f \in FileNames |-> NoFile]
  /\ todo = {}
  /\ pc = "start"
  /\ run = 1
  /\ successful_files = 0
  /\ failed_files = 0
  /\ total_finalized_records = 0
  /\ log = [f \in FileNames |-> NoCall]
  /\ snap = NoSnap
  /\ arg = Absent
  /\ res = NoCall.r

\* lines 132-147, with no file found: main returns
StartNoFiles ==
  /\ pc = "start"
  /\ csv_files = {}
  /\ pc' = "done"
  /\ UNCHANGED <<files, out, todo, run, successful_files, failed_files,
                 total_finalized_records, log, snap, arg, res>>

\* lines 132-147
Start ==
  /\ pc = "start"
  /\ csv_files # {}
  /\ todo' = csv_files
  /\ successful_files' = 0
  /\ failed_files' = 0
  /\ total_finalized_records' = 0
  /\ pc' = "loop"
  /\ UNCHANGED <<files, out, run, log, snap, arg, res>>

\* lines 149-156: one iteration of the loop, in whatever order glob listed
\* the files
Iterate(f) ==
  /\ pc = "loop"
  /\ f \in todo
  /\ LET r == process_csv_file(files[f], out[f]) IN
       /\ out' = [out EXCEPT ![f] = r.after]
       /\ log' = [log EXCEPT ![f] = [calls |-> @.calls + 1, before |-> out[f],
                                     content |-> files[f], r |-> r]]
       /\ IF r.success
            THEN /\ successful_files' = successful_files + 1
                 /\ total_finalized_records' = total_finalized_records + r.record_count
                 /\ UNCHANGED failed_files
            ELSE /\ failed_files' = failed_files + 1
                 /\ UNCHANGED <<successful_files, total_finalized_records>>
       /\ todo' = rest_after(todo, f, r.success)
  /\ UNCHANGED <<files, pc, run, snap, arg, res>>

\* lines 158-165
Summary ==
  /\ pc = "loop"
  /\ todo = {}
  /\ pc' = "done"
  /\ UNCHANGED <<files, out, todo, run, successful_files, failed_files,
                 total_finalized_records, log, snap, arg, res>>

\* lines 167-168, a second time: the script is started again on the same
\* input directory, final_data/ being as the first run left it
Rerun ==
  /\ pc = "done"
  /\ run = 1
  /\ run' = 2
  /\ snap' = [out |-> out, successful_files |-> successful_files,
              failed_files |-> failed_files,
              total_finalized_records |-> total_finalized_records]
  /\ log' = [f \in FileNames |-> NoCall]
  /\ successful_files' = 0
  /\ failed_files' = 0
  /\ total_finalized_records' = 0
  /\ todo' = {}
  /\ pc' = "start"
  /\ UNCHANGED <<files, out, arg, res>>

Next ==
  \/ StartNoFiles
  \/ Start
  \/ \E f \in FileNames : Iterate(f)
  \/ Summary
  \/ Rerun

Spec == Init /\ [][Next]_vars

(***************************************************************************)
(* One file through process_csv_file, and one cell through each coercion   *)
(***************************************************************************)
BatchIdle ==
  /\ files = [f \in FileNames |-> Absent]
  /\ out = [f \in FileNames |-> NoFile]
  /\ todo = {}
  /\ run = 1
  /\ successful_files = 0
  /\ failed_files = 0
  /\ total_finalized_records = 0
  /\ log = [f \in FileNames |-> NoCall]
  /\ snap = NoSnap

batchVars == <<files, out, todo, run, successful_files, failed_files,
               total_finalized_records, log, snap>>

InitFile ==
  /\ BatchIdle
  /\ pc = "arg"
  /\ arg \in SingleFiles
  /\ res = NoCall.r

\* process_csv_file on a file whose output does not exist yet
ProcessOne ==
  /\ pc = "arg"
  /\ res' = process_csv_file(arg, NoFile)
  /\ pc' = "res"
  /\ UNCHANGED <<batchVars, arg>>

SpecFile == InitFile /\ [][ProcessOne]_vars

T1hashIND == <<"1", ".", "#", "I", "N", "D">>

\* the raw cell texts the coercions are tried on
CellTexts ==
  Texts(Alphabet, MaxLen)
    \cup {T1007p0, Tabc, T01007, T303030, TNA, T12, Ttwelve, T1hashIND}

NoCell == [fn |-> "none", text |-> <<>>, num |-> [exc |-> FALSE, values |-> <<>>]]

InitCell ==
  /\ BatchIdle
  /\ pc = "arg"
  /\ arg \in CellTexts
  /\ res = NoCell

\* lines 58-63 on a column of one cell read from the file
CoerceFips ==
  /\ pc = "arg"
  /\ res' = [NoCell EXCEPT !.fn = "fips", !.text = coerce_county_fips(read_cell(arg))]
  /\ pc' = "res"
  /\ UNCHANGED <<batchVars, arg>>

\* lines 66-73 on a column of one cell read from the file
CoerceDollars ==
  /\ pc = "arg"
  /\ res' = [NoCell EXCEPT !.fn = "dollars", !.num = coerce_dollars(<<read_cell(arg)>>)]
  /\ pc' = "res"
  /\ UNCHANGED <<batchVars, arg>>

\* lines 76-78 on a column of one cell read from the file
CoerceCount ==
  /\ pc = "arg"
  /\ res' = [NoCell EXCEPT !.fn = "count", !.num = coerce_count(<<read_cell(arg)>>)]
  /\ pc' = "res"
  /\ UNCHANGED <<batchVars, arg>>

NextCell == CoerceFips \/ CoerceDollars \/ CoerceCount

SpecCell == InitCell /\ [][NextCell]_vars

(***************************************************************************)
(* Properties of the batch run                                             *)
(***************************************************************************)
Processed == {f \in FileNames : log[f].calls > 0}

Succeeded == {f \in Processed : log[f].r.success}

RECURSIVE SumRows(_)
SumRows(S) ==
  IF S = {} THEN 0
  ELSE LET f == CHOOSE x \in S : TRUE IN Len(files[f].rows) + SumRows(S \ {f})

\* the labels of an input file after the renaming, read off the file itself
RenamedLabels(content) ==
  {IF c = "fiscal_year" THEN "year"
   ELSE IF c = "investment_dollars" THEN "502_investment_dollars"
   ELSE IF c = "number_of_investments" THEN "number_of_502_investment"
   ELSE c : c \in Range(content.columns)}

SixNames ==
  {"year", "county", "state_name", "county_fips",
   "502_investment_dollars", "number_of_502_investment"}

LacksColumn(content) == content.kind = "table" /\ ~(SixNames \subseteq RenamedLabels(content))

HasColumns(content) == content.kind = "table" /\ SixNames \subseteq RenamedLabels(content)

\* C1: whenever process_csv_file returns failure, the output path is in the
\* same state after the call as before it.
C1_FailureLeavesOutputUntouched ==
  \A f \in Processed : ~log[f].r.success => log[f].r.after = log[f].before

\* C2: every discovered file is processed exactly once whatever the others
\* did; after each iteration successful_files + failed_files is the number of
\* files processed so far; at the end it is the number of discovered files and
\* total_finalized_records is the sum of the row counts of the successful files.
C2_EveryFileOnceAndTallied ==
  /\ \A f \in FileNames : log[f].calls <= 1
  /\ pc = "loop" =>
       /\ Processed \cup todo = csv_files
       /\ Processed \cap todo = {}
       /\ successful_files + failed_files = Cardinality(Processed)
  /\ (pc = "done" /\ csv_files # {}) =>
       /\ Processed = csv_files
       /\ successful_files + failed_files = Cardinality(csv_files)
       /\ successful_files = Cardinality(Succeeded)
       /\ total_finalized_records = SumRows(Succeeded)

C2_Witness ==
  /\ pc = "done"
  /\ run = 1
  /\ successful_files = 1
  /\ failed_files = 1
  /\ total_finalized_records = 2

\* C4: a file lacking one of the six columns after the renaming gets the
\* failure marker from finalize_dataframe with no coercion done, (False, 0)
\* from process_csv_file with the writer not called, is counted in
\* failed_files, adds nothing to total_finalized_records, and the loop goes on.
C4_MissingColumnsFailTheFileOnly ==
  \A f \in Processed :
    LacksColumn(log[f].content) =>
      /\ log[f].r.fin = [exc |-> FALSE, coerced |-> FALSE, df |-> EmptyFrame]
      /\ ~log[f].r.wrote
      /\ ~log[f].r.success
      /\ log[f].r.record_count = 0
      /\ log[f].r.after = log[f].before
      /\ failed_files = Cardinality(Processed \ Succeeded)
      /\ total_finalized_records = SumRows(Succeeded)
      /\ todo # {} => pc = "loop"
      /\ pc = "done" => Processed = csv_files

C4_Witness ==
  /\ pc = "done"
  /\ \E f, g \in Processed :
       /\ LacksColumn(log[f].content)
       /\ Len(log[f].content.rows) = 2
       /\ log[g].r.success
       /\ failed_files = 1
       /\ total_finalized_records = Len(log[g].content.rows)

NewlineCount(bytes) == Cardinality({i \in DOMAIN bytes : bytes[i] = "\n"})

\* C5: a file with the six columns and no data row is a failure: (False, 0)
\* and no output file, not even a header; so no success has a record count
\* of 0 and every file written on success holds the header and a record.
C5_ZeroRowsIsFailure ==
  \A f \in Processed :
    /\ (HasColumns(log[f].content) /\ Len(log[f].content.rows) = 0) =>
         /\ ~log[f].r.success
         /\ log[f].r.record_count = 0
         /\ ~log[f].r.wrote
         /\ log[f].r.after = log[f].before
    /\ log[f].r.success =>
         /\ log[f].r.record_count >= 1
         /\ out[f] = log[f].r.after
         /\ NewlineCount(out[f]) >= 2

C5_Witness ==
  \E f \in Processed :
    /\ HasColumns(log[f].content)
    /\ Len(log[f].content.rows) = 0
    /\ run = 1
    /\ out[f] = NoFile
    /\ failed_files >= 1

\* C7: a value of dollars or count that does not parse never fails the file:
\* any file with the six columns and at least one row is a success with its
\* full row count.
C7_FilesWithRowsSucceed ==
  \A f \in Processed :
    (HasColumns(log[f].content) /\ Len(log[f].content.rows) >= 1) =>
      /\ log[f].r.success
      /\ log[f].r.record_count = Len(log[f].content.rows)

\* C10: the output of a file is a function of its contents alone: a second
\* run over the same directory, in any order, leaves the same files with the
\* same bytes and reports the same counts, and within a run files with equal
\* contents get equal outputs.
C10_RerunIsIdentical ==
  /\ (pc = "done" /\ run = 2) =>
       /\ out = snap.out
       /\ successful_files = snap.successful_files
       /\ failed_files = snap.failed_files
       /\ total_finalized_records = snap.total_finalized_records
  /\ \A f, g \in Processed :
       log[f].content = log[g].content =>
         /\ out[f] = out[g]
         /\ log[f].r.success = log[g].r.success
         /\ log[f].r.record_count = log[g].r.record_count

C10_Witness ==
  /\ pc = "done"
  /\ run = 2
  /\ Cardinality(Processed) = 2
  /\ snap.successful_files = 1
  /\ snap.failed_files = 1
  /\ \E f \in Processed : out[f] # NoFile /\ NewlineCount(out[f]) = 3

(***************************************************************************)
(* Properties of the coercions                                             *)
(***************************************************************************)
HasDigit(t) == \E i \in DOMAIN t : t[i] \in Digits

\* r is the first maximal run of digits of the text t
IsFirstDigitRun(r, t) ==
  \E i \in DOMAIN t : \E j \in i..Len(t) :
    /\ r = SubSeq(t, i, j)
    /\ \A k \in 1..j : (t[k] \in Digits) <=> (k >= i)
    /\ (j = Len(t) \/ t[j + 1] \notin Digits)

\* C9: the county_fips of a value is the first contiguous run of digits of
\* its text, verbatim (leading zeros kept, nothing padded), and the empty
\* text when the text has no digit or the value is missing; it is never null.
C9_FipsIsFirstDigitRun ==
  res.fn = "fips" =>
    /\ res.text # NaN
    /\ IF read_cell(arg) = NaN \/ ~HasDigit(arg)
         THEN res.text = <<>>
         ELSE IsFirstDigitRun(res.text, arg)
    /\ arg = T1007p0 => res.text = <<"1", "0", "0", "7">>
    /\ arg = Tabc => res.text = <<>>
    /\ arg = T01007 => res.text = <<"0", "1", "0", "0", "7">>

C9_Witness ==
  /\ res.fn = "fips"
  /\ arg = <<"a", "0", "1">>
  /\ res.text = <<"0", "1">>

\* what is left of a text once every ',' and '$' is taken out
RECURSIVE WithoutPunctuation(_)
WithoutPunctuation(t) ==
  IF t = <<>> THEN <<>>
  ELSE IF Head(t) \in {",", "$"} THEN WithoutPunctuation(Tail(t))
  ELSE <<Head(t)>> \o WithoutPunctuation(Tail(t))

\* C8: for every input value the dollars coercion yields an integer: the
\* value's text without ',' and '$', parsed as a number and truncated, and 0
\* when it does not parse.
C8_DollarsAlwaysAnInteger ==
  res.fn = "dollars" =>
    /\ ~res.num.exc
    /\ Len(res.num.values) = 1
    /\ res.num.values[1] \in Int
    /\ (read_cell(arg) # NaN /\ WithoutPunctuation(arg) # <<>>
          /\ Range(WithoutPunctuation(arg)) \subseteq Digits) =>
         res.num.values[1] = DigitsValue(WithoutPunctuation(arg))
    /\ arg = T303030 => res.num.values[1] = 303030
    /\ arg = TNA => res.num.values[1] = 0
    /\ arg = <<>> => res.num.values[1] = 0

(***************************************************************************)
(* Properties of one file's finalization and output                        *)
(***************************************************************************)
\* the frame finalize_dataframe returned, when it returned one that is not
\* the failure marker
Finalized == pc = "res" /\ ~res.fin.exc /\ res.fin.coerced

\* C3: a non-failure result of finalize_dataframe has exactly the six
\* columns, in the fixed order, and one row per input row.
C3_SixColumnsOneRowPerRow ==
  Finalized =>
    /\ res.fin.df.columns =
         <<"year", "county", "state_name", "county_fips",
           "502_investment_dollars", "number_of_502_investment">>
    /\ Len(res.fin.df.rows) = Len(arg.rows)
    /\ \A r \in DOMAIN res.fin.df.rows : Len(res.fin.df.rows[r]) = 6

\* the text before and the text after the last occurrence of ch in s
RECURSIVE LastIndexOf(_, _, _)
LastIndexOf(s, ch, i) ==
  IF i = 0 THEN 0 ELSE IF s[i] = ch THEN i ELSE LastIndexOf(s, ch, i - 1)

BeforeLast(s, ch) == SubSeq(s, 1, LastIndexOf(s, ch, Len(s)) - 1)

AfterLast(s, ch) == SubSeq(s, LastIndexOf(s, ch, Len(s)) + 1, Len(s))

NewlinesOf(bytes) == {i \in DOMAIN bytes : bytes[i] = "\n"}

\* the position of the k-th newline of a file
KthNewline(bytes, k) ==
  CHOOSE e \in NewlinesOf(bytes) :
    Cardinality({p \in NewlinesOf(bytes) : p < e}) = k - 1

\* the newline-terminated lines of a file, each without its newline
Lines(bytes) ==
  [k \in 1..Cardinality(NewlinesOf(bytes)) |->
     SubSeq(bytes, (IF k = 1 THEN 1 ELSE KthNewline(bytes, k - 1) + 1),
            KthNewline(bytes, k) - 1)]

\* t is the bare decimal numeral of the integer n
IsBareInteger(t, n) ==
  LET d == IF n < 0 THEN Tail(t) ELSE t IN
  /\ t # <<>>
  /\ n < 0 => Head(t) = "-"
  /\ d # <<>>
  /\ Range(d) \subseteq Digits
  /\ DigitsValue(d) = (IF n < 0 THEN 0 - n ELSE n)

HeaderText ==
  <<"y", "e", "a", "r", ",", "c", "o", "u", "n", "t", "y", ",",
    "s", "t", "a", "t", "e", "_", "n", "a", "m", "e", ",",
    "c", "o", "u", "n", "t", "y", "_", "f", "i", "p", "s", ",",
    "5", "0", "2", "_", "i", "n", "v", "e", "s", "t", "m", "e", "n", "t", "_",
    "d", "o", "l", "l", "a", "r", "s", ",",
    "n", "u", "m", "b", "e", "r", "_", "o", "f", "_", "5", "0", "2", "_",
    "i", "n", "v", "e", "s", "t", "m", "e", "n", "t">>

OrEmpty(x) == IF x = NaN THEN <<>> ELSE x

\* line is the record line of the finalized row: year,county,state_name,
\* "county_fips",dollars,count with only county_fips in double quotes, the
\* two numbers bare, and a missing county, state_name or county_fips empty
\* (a missing year, of which the specification says nothing, reads nan)
IsRecordLine(line, row) ==
  /\ IsBareInteger(AfterLast(line, ","), row[6])
  /\ IsBareInteger(AfterLast(BeforeLast(line, ","), ","), row[5])
  /\ BeforeLast(BeforeLast(line, ","), ",") =
       (IF row[1] = NaN THEN <<"n", "a", "n">> ELSE row[1]) \o <<",">> \o OrEmpty(row[2]) \o <<",">> \o OrEmpty(row[3])
         \o <<",">> \o <<"\"">> \o OrEmpty(row[4]) \o <<"\"">>

HasLineBreak(row) == \E k \in 1..3 : "\n" \in Range(row[k])

FileFormat(bytes, rows) ==
  /\ bytes[Len(bytes)] = "\n"
  /\ NewlineCount(bytes) = Len(rows) + 1
  /\ Len(Lines(bytes)) = Len(rows) + 1
  /\ Lines(bytes)[1] = HeaderText
  /\ \A r \in DOMAIN rows : IsRecordLine(Lines(bytes)[r + 1], rows[r])

\* C6: for every finalized record set of n rows the writer writes exactly
\* n+1 lines, each ended by one newline: the unquoted header, then one line
\* per record in record order, of the stated form.
C6_WritesHeaderAndOneLinePerRecord ==
  (pc = "res" /\ res.success) => FileFormat(res.after, res.fin.df.rows)

\* C6, amended: the same, for record sets in which no year, county or
\* state_name holds a line break.
C6_OneLinePerRecordWithoutLineBreaks ==
  (pc = "res" /\ res.success
     /\ \A r \in DOMAIN res.fin.df.rows : ~HasLineBreak(res.fin.df.rows[r])) =>
    FileFormat(res.after, res.fin.df.rows)

C6_Witness ==
  /\ pc = "res"
  /\ res.success
  /\ Len(res.fin.df.rows) = 2
  /\ \A r \in DOMAIN res.fin.df.rows : ~HasLineBreak(res.fin.df.rows[r])
  /\ res.fin.df.rows[1][2] = NaN
  /\ res.fin.df.rows[1][3] = NaN
  /\ res.fin.df.rows[1][4] = <<>>
  /\ res.fin.df.rows[2][6] = 0 - 12
  /\ NewlineCount(res.after) = 3

====
